---- MODULE Spec2Model ----
(***************************************************************************)
(* Model of dia-cli's core: record construction and canonicalization       *)
(* (model.rs), the deduplicator and the ranked search engine (search.rs).  *)
(*                                                                         *)
(* Strings are sequences of one-character strings.  Option<T> is a         *)
(* sequence of length 0 (None) or 1 (Some(x)).  A u32 is a pair            *)
(* <<hi, lo>> of 16-bit limbs (value hi * 2^16 + lo), so that the full     *)
(* 32-bit range and its saturation point are represented exactly.          *)
(***************************************************************************)
EXTENDS Integers, Sequences, FiniteSets, TLC

VARIABLES
    entries,    \* dedupe_entries: the input Vec<Entry>
    idx,        \* dedupe_entries: position of the for loop (next entry to consume)
    map,        \* dedupe_entries: AHashMap<u64, Entry>, as a function key -> Entry
    deduped,    \* dedupe_entries: the returned Vec<Entry>
    dpc,        \* dedupe_entries: "loop" | "done"
    lastOp,     \* dedupe_entries: what the last loop iteration did
    records,    \* search: the &[Entry] slice
    query,      \* search: the query string
    limit,      \* search: the limit argument
    matcher,    \* search: outcome of Pattern::score per haystack string
    results,    \* search: the returned Vec<&Entry>, as indexes into records
    spc,        \* search: "call" | "returned" | "panicked"
    cin,        \* canonical_url: the input, [kind, url, bare]
    cout,       \* canonical_url: the result for cin.url
    cagain,     \* canonical_url: the result for cout
    cpc,        \* canonical_url: "call" | "once" | "twice"
    commands,   \* load_tabs: the tab snapshots of snss.commands, in order
    tidx,       \* load_tabs: position of the for loop
    tab_map,    \* load_tabs: HashMap<i32, (i32, String, String)>
    tabs_out,   \* load_tabs: the returned entries, as a set
    tpc         \* load_tabs: "loop" | "done"

dvars == <<entries, idx, map, deduped, dpc, lastOp>>
svars == <<records, query, limit, matcher, results, spc>>
cvars == <<cin, cout, cagain, cpc>>
tvars == <<commands, tidx, tab_map, tabs_out, tpc>>
vars == <<entries, idx, map, deduped, dpc, lastOp, records, query, limit, matcher, results, spc,
          cin, cout, cagain, cpc, commands, tidx, tab_map, tabs_out, tpc>>

\* No canonicalization is in progress.
CanonIdle ==
    /\ cin = [kind |-> "none", url |-> <<>>, bare |-> <<>>]
    /\ cout = <<>>
    /\ cagain = <<>>
    /\ cpc = "idle"

\* No tab loading is in progress.
TabsIdle ==
    /\ commands = <<>>
    /\ tidx = 1
    /\ tab_map = <<>>
    /\ tabs_out = {}
    /\ tpc = "idle"

(***************************************************************************)
(* Bounds of the model.                                                    *)
(***************************************************************************)
MaxEntries == 3
MaxRecords == 3

(***************************************************************************)
(* Option<T>                                                               *)
(***************************************************************************)
None == <<>>
Some(x) == <<x>>
is_none(o) == Len(o) = 0
is_some(o) == Len(o) = 1
unwrap(o) == o[1]
unwrap_or(o, d) == IF is_some(o) THEN o[1] ELSE d

(***************************************************************************)
(* u32 as two 16-bit limbs.                                                *)
(***************************************************************************)
LimbBase == 65536
U32Max == <<LimbBase - 1, LimbBase - 1>>
U32(n) == <<n \div LimbBase, n % LimbBase>>

\* A wrapping sum, the value `+` yields in a release build.
wrapping_add(a, b) ==
    LET lo == a[2] + b[2]
        hi == a[1] + b[1] + (lo \div LimbBase)
    IN  <<hi % LimbBase, lo % LimbBase>>

\* u32::saturating_add
saturating_add(a, b) ==
    LET lo == a[2] + b[2]
        hi == a[1] + b[1] + (lo \div LimbBase)
    IN  IF hi >= LimbBase THEN U32Max ELSE <<hi, lo % LimbBase>>

(***************************************************************************)
(* Source, ordered by its discriminants (derive PartialOrd, Ord).          *)
(***************************************************************************)
History == 0
Bookmark == 1
Tab == 2

(***************************************************************************)
(* Canonicalizer (model.rs).                                               *)
(***************************************************************************)
UpperCase == <<"A", "B", "C", "D", "E", "F", "G", "H", "I", "J", "K", "L", "M",
               "N", "O", "P", "Q", "R", "S", "T", "U", "V", "W", "X", "Y", "Z">>
LowerCase == <<"a", "b", "c", "d", "e", "f", "g", "h", "i", "j", "k", "l", "m",
               "n", "o", "p", "q", "r", "s", "t", "u", "v", "w", "x", "y", "z">>

\* char::to_lowercase on the ASCII letters; other characters are kept
ToLower(c) ==
    IF \E i \in 1..Len(UpperCase) : UpperCase[i] = c
    THEN LowerCase[CHOOSE i \in 1..Len(UpperCase) : UpperCase[i] = c]
    ELSE c

\* str::to_lowercase
normalize(s) == [i \in 1..Len(s) |-> ToLower(s[i])]

StartsWith(s, p) == Len(p) <= Len(s) /\ SubSeq(s, 1, Len(p)) = p

\* str::trim_start_matches: removes the prefix repeatedly
RECURSIVE trim_start_matches(_, _)
trim_start_matches(s, p) ==
    IF Len(p) > 0 /\ StartsWith(s, p)
    THEN trim_start_matches(SubSeq(s, Len(p) + 1, Len(s)), p)
    ELSE s

\* str::trim_end_matches(char): removes the trailing character repeatedly
RECURSIVE trim_end_matches(_, _)
trim_end_matches(s, c) ==
    IF Len(s) > 0 /\ s[Len(s)] = c
    THEN trim_end_matches(SubSeq(s, 1, Len(s) - 1), c)
    ELSE s

\* s.split(c).next(): the part before the first c; Split always yields a first
\* item, so the unwrap_or fallback is never taken
SplitFirst(s, c) ==
    LET hits == {i \in 1..Len(s) : s[i] = c}
    IN  IF hits = {} THEN s
        ELSE SubSeq(s, 1, (CHOOSE i \in hits : \A j \in hits : i <= j) - 1)

Https == <<"h", "t", "t", "p", "s", ":", "/", "/">>
Http == <<"h", "t", "t", "p", ":", "/", "/">>
Www == <<"w", "w", "w", ".">>

\* Stripping the trailing slash before the fragment and the query.
canonical_url_slash_first(url) ==
    LET s0 == trim_end_matches(url, "/")
        s1 == trim_start_matches(trim_start_matches(trim_start_matches(s0, Https), Http), Www)
        s2 == SplitFirst(s1, "#")
    IN  SplitFirst(s2, "?")

canonical_url(url) ==
    LET s1 == trim_start_matches(trim_start_matches(trim_start_matches(url, Https), Http), Www)
        s2 == SplitFirst(s1, "#")
        s3 == SplitFirst(s2, "?")
    IN  trim_end_matches(s3, "/")

\* The 64-bit DefaultHasher value of the canonical form is represented by the
\* canonical form itself: equal forms hash equal, and distinct forms of the
\* bounded inputs are taken not to collide.
canonical_url_hash(url) == canonical_url(url)

new_history(url, title, visit_count, last_visit) ==
    [url |-> url, title |-> title, source |-> History,
     visit_count |-> Some(visit_count), last_visit |-> Some(last_visit),
     folder |-> None, tab_id |-> None,
     url_norm |-> normalize(url), title_norm |-> normalize(title),
     canonical_key |-> canonical_url_hash(url)]

new_bookmark(url, title, folder) ==
    [url |-> url, title |-> title, source |-> Bookmark,
     visit_count |-> None, last_visit |-> None,
     folder |-> folder, tab_id |-> None,
     url_norm |-> normalize(url), title_norm |-> normalize(title),
     canonical_key |-> canonical_url_hash(url)]

new_tab(url, title, tab_id) ==
    [url |-> url, title |-> title, source |-> Tab,
     visit_count |-> None, last_visit |-> None,
     folder |-> None, tab_id |-> Some(tab_id),
     url_norm |-> normalize(url), title_norm |-> normalize(title),
     canonical_key |-> canonical_url_hash(url)]

(***************************************************************************)
(* Inputs of the deduplicator: rows as the three producers yield them.     *)
(***************************************************************************)
UrlA1 == <<"h", "t", "t", "p", ":", "/", "/", "a">>
UrlA3 == <<"a", "/">>
UrlB == <<"w", "w", "w", ".", "b", "#", "s">>
UrlC == <<"c", "?", "q">>
TitleOld == <<"O", "l", "d">>
TitleNew == <<"N", "e", "w">>
TitleEmpty == <<>>
FolderWork == <<"W">>
TitleMark == <<"B", "m">>

HistoryRows ==
    { <<UrlA1, TitleOld, U32(5), 1000>>,
      <<UrlA3, TitleNew, U32(3), 2000>>,
      <<UrlA3, TitleEmpty, <<LimbBase - 1, LimbBase - 6>>, 0 - 7>>,
      <<UrlB, TitleOld, U32Max, 1000>> }

BookmarkRows ==
    { <<UrlA1, TitleNew, None>>,
      <<UrlA3, TitleMark, Some(FolderWork)>>,
      <<UrlA3, TitleEmpty, Some(FolderWork)>>,
      <<UrlC, TitleOld, Some(FolderWork)>> }

TabRows ==
    { <<UrlA3, TitleNew, 7>>,
      <<UrlA1, TitleEmpty, 1>>,
      <<UrlB, TitleNew, 7>> }

EntryInputs ==
    {new_history(r[1], r[2], r[3], r[4]) : r \in HistoryRows}
    \cup {new_bookmark(r[1], r[2], r[3]) : r \in BookmarkRows}
    \cup {new_tab(r[1], r[2], r[3]) : r \in TabRows}

SeqsUpTo(S, n) == UNION {[1..k -> S] : k \in 0..n}

(***************************************************************************)
(* Deduplicator (search.rs, dedupe_entries).                               *)
(***************************************************************************)
\* Keying the map by the raw URL instead of the merge key.
KeyOfUrl(entry) == entry.url

\* map.entry(entry.canonical_key)
KeyOf(entry) == entry.canonical_key

\* Replacing the title on equal precedence too.
TitleOverridesGe(entry, existing) ==
    entry.source >= existing.source /\ entry.title # <<>>

\* entry.source > existing.source && !entry.title.is_empty()
TitleOverrides(entry, existing) ==
    entry.source > existing.source /\ entry.title # <<>>

\* A sum that wraps instead of saturating.
MergeVisitCountWrapping(existing_vc, entry_vc) ==
    IF is_some(entry_vc)
    THEN Some(wrapping_add(unwrap_or(existing_vc, U32(0)), unwrap(entry_vc)))
    ELSE existing_vc

\* if let Some(vc) = entry.visit_count { ... saturating_add ... }
MergeVisitCount(existing_vc, entry_vc) ==
    IF is_some(entry_vc)
    THEN Some(saturating_add(unwrap_or(existing_vc, U32(0)), unwrap(entry_vc)))
    ELSE existing_vc

Max(a, b) == IF a >= b THEN a ELSE b

\* Always taking the incoming last_visit.
MergeLastVisitIncoming(existing_lv, entry_lv) ==
    IF is_some(entry_lv) THEN entry_lv ELSE existing_lv

\* if existing.last_visit.is_none() { .. } else if let Some(lv) = entry.last_visit { .. }
MergeLastVisit(existing_lv, entry_lv) ==
    IF is_none(existing_lv) THEN entry_lv
    ELSE IF is_some(entry_lv) THEN Some(Max(unwrap(existing_lv), unwrap(entry_lv)))
    ELSE existing_lv

\* A merge that also adopts url, folder and tab_id of an overriding entry.
MergeTakingUrl(existing, entry) ==
    [existing EXCEPT
        !.title = IF TitleOverrides(entry, existing) THEN entry.title ELSE @,
        !.title_norm = IF TitleOverrides(entry, existing) THEN entry.title_norm ELSE @,
        !.url = IF TitleOverrides(entry, existing) THEN entry.url ELSE @,
        !.folder = IF TitleOverrides(entry, existing) THEN entry.folder ELSE @,
        !.tab_id = IF TitleOverrides(entry, existing) THEN entry.tab_id ELSE @,
        !.visit_count = MergeVisitCount(@, entry.visit_count),
        !.last_visit = MergeLastVisit(@, entry.last_visit)]

\* The and_modify closure: the retained entry after merging `entry` into it.
Merge(existing, entry) ==
    [existing EXCEPT
        !.title = IF TitleOverrides(entry, existing) THEN entry.title ELSE @,
        !.title_norm = IF TitleOverrides(entry, existing) THEN entry.title_norm ELSE @,
        !.visit_count = MergeVisitCount(@, entry.visit_count),
        !.last_visit = MergeLastVisit(@, entry.last_visit)]

\* The map after the for loop has consumed the first n entries of es.
RECURSIVE DedupeFold(_, _)
DedupeFold(es, n) ==
    IF n = 0 THEN <<>>
    ELSE LET m == DedupeFold(es, n - 1)
             k == KeyOf(es[n])
         IN  IF k \in DOMAIN m
             THEN [m EXCEPT ![k] = Merge(@, es[n])]
             ELSE [x \in DOMAIN m \cup {k} |-> IF x \in DOMAIN m THEN m[x] ELSE es[n]]

\* All orders in which a hash map may yield its values.
ValueOrders(m) ==
    {[i \in 1..Cardinality(DOMAIN m) |-> m[p[i]]] :
        p \in {q \in [1..Cardinality(DOMAIN m) -> DOMAIN m] :
                  \A i, j \in DOMAIN q : i # j => q[i] # q[j]}}

\* No search is in progress.
SearchIdle ==
    /\ records = <<>>
    /\ query = <<>>
    /\ limit = 0
    /\ matcher = <<>>
    /\ results = <<>>
    /\ spc = "idle"

DedupeInit ==
    /\ entries \in SeqsUpTo(EntryInputs, MaxEntries)
    /\ idx = 1
    /\ map = <<>>
    /\ deduped = <<>>
    /\ dpc = "loop"
    /\ lastOp = "none"
    /\ SearchIdle
    /\ CanonIdle
    /\ TabsIdle

\* One iteration of the for loop, or_insert branch: first occurrence of the key.
DedupeInsert ==
    /\ dpc = "loop"
    /\ idx <= Len(entries)
    /\ KeyOf(entries[idx]) \notin DOMAIN map
    /\ map' = [k \in DOMAIN map \cup {KeyOf(entries[idx])} |->
                  IF k \in DOMAIN map THEN map[k] ELSE entries[idx]]
    /\ idx' = idx + 1
    /\ lastOp' = "insert"
    /\ UNCHANGED <<entries, deduped, dpc>>

\* One iteration of the for loop, and_modify branch: the key is already retained.
DedupeMerge ==
    /\ dpc = "loop"
    /\ idx <= Len(entries)
    /\ KeyOf(entries[idx]) \in DOMAIN map
    /\ map' = [map EXCEPT ![KeyOf(entries[idx])] = Merge(@, entries[idx])]
    /\ idx' = idx + 1
    /\ lastOp' = "merge"
    /\ UNCHANGED <<entries, deduped, dpc>>

\* map.into_values().collect(): the values in the map's iteration order.
DedupeReturn ==
    /\ dpc = "loop"
    /\ idx = Len(entries) + 1
    /\ deduped' \in ValueOrders(map)
    /\ dpc' = "done"
    /\ lastOp' = "return"
    /\ UNCHANGED <<entries, idx, map>>

DedupeNext ==
    \/ DedupeInsert /\ UNCHANGED <<svars, cvars, tvars>>
    \/ DedupeMerge /\ UNCHANGED <<svars, cvars, tvars>>
    \/ DedupeReturn /\ UNCHANGED <<svars, cvars, tvars>>

SpecDedupe == DedupeInit /\ [][DedupeNext]_vars

(***************************************************************************)
(* Ranker (search.rs, SearchEngine).                                       *)
(*                                                                         *)
(* Scores are f32 in the code; here they are exact integers scaled by      *)
(* ScoreScale = 10^6: the boost is scaled by 10^5 and the weight by 10.    *)
(***************************************************************************)
UrlX == <<"x">>
UrlY == <<"y">>
TitleT == <<"T">>

\* The slice handed to search: entries as the constructors and the
\* deduplicator's merge leave them.
RecordInputs ==
    { new_history(UrlX, TitleT, U32(9), 1000),
      new_history(UrlY, TitleT, U32(0), 2000),
      new_tab(UrlY, TitleT, 7),
      Merge(new_tab(UrlX, TitleT, 1), new_history(UrlX, TitleT, U32(9), 1000)),
      Merge(new_bookmark(UrlY, TitleT, None), new_history(UrlY, TitleT, U32(0), 1000)) }

Haystacks ==
    {r.title_norm : r \in RecordInputs} \cup {r.url_norm : r \in RecordInputs}

\* Pattern::score(haystack, matcher) of the nucleo matcher: Option<u32>.  The
\* matcher is an external primitive; its outcome per haystack is an input.
ScoreOutcomes == {None, Some(0), Some(20), Some(40)}
MatcherOutcomes == [Haystacks -> ScoreOutcomes]

QueryRust == <<"r", "u", "s", "t">>

\* The non-empty queries.
Queries == {QueryRust}

\* 10^4 * ln(1 + v), rounded, for the visit counts of RecordInputs.
Ln1pE4(v) ==
    CASE v = U32(0) -> 0
      [] v = U32(9) -> 23026
      [] v = U32(18) -> 29444

\* 10^5 * (1.0 + ln_1p(visit_count.unwrap_or(0)) * 0.1)
freq_boost(entry) == 100000 + Ln1pE4(unwrap_or(entry.visit_count, U32(0)))

\* A weight table with Tab and Bookmark exchanged.
source_weight_swapped(entry) ==
    CASE entry.source = Tab -> 11
      [] entry.source = Bookmark -> 13
      [] entry.source = History -> 10

\* 10 * source weight
source_weight(entry) ==
    CASE entry.source = Tab -> 13
      [] entry.source = Bookmark -> 11
      [] entry.source = History -> 10

\* Scoring a record that matches on neither field as zero.
score_entry_zero(entry, m) ==
    LET title_score == m[entry.title_norm]
        url_score == m[entry.url_norm]
        base_score == Max(unwrap_or(title_score, 0), unwrap_or(url_score, 0))
    IN  Some(base_score * freq_boost(entry) * source_weight(entry))

\* score_entry: Option<f32>, None when the pattern matches neither field
score_entry(entry, m) ==
    LET title_score == m[entry.title_norm]
        url_score == m[entry.url_norm]
    IN  IF is_none(title_score) /\ is_none(url_score) THEN None
        ELSE LET base_score ==
                     IF is_some(title_score) /\ is_some(url_score)
                     THEN Max(unwrap(title_score), unwrap(url_score))
                     ELSE IF is_some(title_score) THEN unwrap(title_score)
                     ELSE unwrap(url_score)
             IN  Some(base_score * freq_boost(entry) * source_weight(entry))

\* entries.iter().filter_map(..).collect(): the scoring positions, in input order
RECURSIVE Scored(_, _, _)
Scored(recs, m, n) ==
    IF n = 0 THEN <<>>
    ELSE IF is_some(score_entry(recs[n], m))
         THEN Append(Scored(recs, m, n - 1), n)
         ELSE Scored(recs, m, n - 1)

ScoreAt(recs, m, i) == unwrap(score_entry(recs[i], m))

\* Taking one element too many.
TakeOneMore(s, n) == SubSeq(s, 1, IF n + 1 < Len(s) THEN n + 1 ELSE Len(s))

\* Iterator::take / Vec::truncate
Take(s, n) == SubSeq(s, 1, IF n < Len(s) THEN n ELSE Len(s))

\* sort_by with |a, b| b.1.partial_cmp(&a.1): a stable sort by descending score
\* (scores are never NaN, so the unwrap_or(Equal) fallback is never taken).
RECURSIVE InsertDesc(_, _, _, _)
InsertDesc(recs, m, sorted, x) ==
    IF sorted = <<>> THEN <<x>>
    ELSE IF ScoreAt(recs, m, sorted[Len(sorted)]) >= ScoreAt(recs, m, x)
         THEN Append(sorted, x)
         ELSE Append(InsertDesc(recs, m, SubSeq(sorted, 1, Len(sorted) - 1), x),
                     sorted[Len(sorted)])

RECURSIVE SortDescFrom(_, _, _, _)
SortDescFrom(recs, m, s, n) ==
    IF n = 0 THEN <<>>
    ELSE InsertDesc(recs, m, SortDescFrom(recs, m, s, n - 1), s[n])

\* Leaving the retained elements in the order the selection left them.
SortSkipped(recs, m, s) == s

SortDesc(recs, m, s) == SortDescFrom(recs, m, s, Len(s))

\* All orders of the elements of the set S.
RECURSIVE OrdersOf(_)
OrdersOf(S) ==
    IF S = {} THEN {<<>>}
    ELSE UNION {{Append(p, x) : p \in OrdersOf(S \ {x})} : x \in S}

\* All reorderings of the sequence s.
Reorderings(s) == {[i \in 1..Len(s) |-> s[p[i]]] : p \in OrdersOf(1..Len(s))}

\* A selection that leaves the slice as it was.
SelectNone(recs, m, s, k) == {s}

\* select_nth_unstable_by(k - 1, descending): every reordering in which the
\* element at (1-based) position k is the one a full sort would put there,
\* nothing before it scores lower and nothing after it scores higher.
SelectNth(recs, m, s, k) ==
    {p \in Reorderings(s) :
        /\ \A i \in 1..(k - 1) : ScoreAt(recs, m, p[i]) >= ScoreAt(recs, m, p[k])
        /\ \A i \in (k + 1)..Len(s) : ScoreAt(recs, m, p[i]) <= ScoreAt(recs, m, p[k])}

\* No deduplication is in progress.
DedupeIdle ==
    /\ entries = <<>>
    /\ idx = 1
    /\ map = <<>>
    /\ deduped = <<>>
    /\ dpc = "idle"
    /\ lastOp = "none"

SearchInit ==
    /\ records \in SeqsUpTo(RecordInputs, MaxRecords)
    /\ query = <<>>
    /\ limit = 0
    /\ matcher = <<>>
    /\ results = <<>>
    /\ spc = "call"
    /\ DedupeIdle
    /\ CanonIdle
    /\ TabsIdle

Limits == 0..(MaxRecords + 1)

\* search with an empty query: entries.iter().take(limit)
SearchBrowse ==
    /\ spc = "call"
    /\ \E l \in Limits :
          /\ query' = <<>>
          /\ limit' = l
          /\ matcher' = <<>>
          /\ results' = Take([i \in 1..Len(records) |-> i], l)
    /\ spc' = "returned"
    /\ UNCHANGED records

\* search with a non-empty query and no more scoring records than limit
SearchSortAll ==
    /\ spc = "call"
    /\ \E q \in Queries, l \in Limits, m \in MatcherOutcomes :
          LET scored == Scored(records, m, Len(records))
          IN  /\ Len(scored) <= l
              /\ query' = q
              /\ limit' = l
              /\ matcher' = m
              /\ results' = SortDesc(records, m, scored)
    /\ spc' = "returned"
    /\ UNCHANGED records

\* search with a non-empty query and more scoring records than limit >= 1:
\* partial selection, truncation, sort of the retained elements
SearchSelect ==
    /\ spc = "call"
    /\ \E q \in Queries, l \in Limits, m \in MatcherOutcomes :
          LET scored == Scored(records, m, Len(records))
          IN  /\ Len(scored) > l
              /\ l >= 1
              /\ query' = q
              /\ limit' = l
              /\ matcher' = m
              /\ \E p \in SelectNth(records, m, scored, l) :
                    results' = SortDesc(records, m, Take(p, l))
    /\ spc' = "returned"
    /\ UNCHANGED records

\* search with a non-empty query, scoring records and limit = 0: `limit - 1`
\* underflows; a debug build panics on the subtraction, a release build wraps
\* to usize::MAX and select_nth_unstable_by panics on the index.
SearchUnderflow ==
    /\ spc = "call"
    /\ \E q \in Queries, l \in Limits, m \in MatcherOutcomes :
          LET scored == Scored(records, m, Len(records))
          IN  /\ Len(scored) > l
              /\ l = 0
              /\ query' = q
              /\ limit' = l
              /\ matcher' = m
              /\ results' = <<>>
    /\ spc' = "panicked"
    /\ UNCHANGED records

SearchNext ==
    \/ SearchBrowse /\ UNCHANGED <<dvars, cvars, tvars>>
    \/ SearchSortAll /\ UNCHANGED <<dvars, cvars, tvars>>
    \/ SearchSelect /\ UNCHANGED <<dvars, cvars, tvars>>
    \/ SearchUnderflow /\ UNCHANGED <<dvars, cvars, tvars>>

SpecSearch == SearchInit /\ [][SearchNext]_vars

(***************************************************************************)
(* Canonicalizer runs: canonical_url applied to a URL, then to its result. *)
(***************************************************************************)
MaxTokens == 4
MaxBare == 3

RECURSIVE Concat(_, _)
\* The concatenation of the first n strings of ss.
Concat(ss, n) == IF n = 0 THEN <<>> ELSE Concat(ss, n - 1) \o ss[n]

UrlTokens == {Https, Http, Www, <<"#">>, <<"?">>, <<"/">>, <<"a">>, <<"b">>}

\* URLs made of up to MaxTokens tokens.
TokenUrls == {Concat(ts, Len(ts)) : ts \in SeqsUpTo(UrlTokens, MaxTokens)}

\* Bare hosts and paths: no scheme, no www., no '#', no '?', no trailing '/'.
BareForms ==
    {b \in SeqsUpTo({"a", "b", "/"}, MaxBare) : Len(b) > 0 /\ b[Len(b)] # "/"}

Schemes == {<<>>, Https, Http}
WwwPrefixes == {<<>>, Www}
Slashes == {<<>>, <<"/">>}
QuerySuffixes == {<<>>, <<"?", "q", "=", "1">>}
FragmentSuffixes == {<<>>, <<"#", "s">>}

\* A bare form with any of the optional parts around it.
DecoratedInputs ==
    {[kind |-> "decorated", url |-> sc \o w \o b \o sl \o q \o f, bare |-> b] :
        sc \in Schemes, w \in WwwPrefixes, b \in BareForms, sl \in Slashes,
        q \in QuerySuffixes, f \in FragmentSuffixes}

TokenInputs == {[kind |-> "tokens", url |-> u, bare |-> <<>>] : u \in TokenUrls}

CanonInit ==
    /\ cin \in TokenInputs \cup DecoratedInputs
    /\ cout = <<>>
    /\ cagain = <<>>
    /\ cpc = "call"
    /\ DedupeIdle
    /\ SearchIdle
    /\ TabsIdle

\* canonical_url(url)
Canonicalize ==
    /\ cpc = "call"
    /\ cout' = canonical_url(cin.url)
    /\ cpc' = "once"
    /\ UNCHANGED <<cin, cagain>>

\* canonical_url applied to its own result
CanonicalizeAgain ==
    /\ cpc = "once"
    /\ cagain' = canonical_url(cout)
    /\ cpc' = "twice"
    /\ UNCHANGED <<cin, cout>>

CanonNext ==
    \/ Canonicalize /\ UNCHANGED <<dvars, svars, tvars>>
    \/ CanonicalizeAgain /\ UNCHANGED <<dvars, svars, tvars>>

SpecCanon == CanonInit /\ [][CanonNext]_vars

(***************************************************************************)
(* Tab producer (tabs.rs, load_tabs), from the parsed session commands on. *)
(***************************************************************************)
TAB_CAP == 500
MaxCommands == 3

UrlU == <<"u">>
UrlV == <<"v">>

\* snss commands: tab snapshots (id, index, url, title) and other content.
TabCommands ==
    {[kind |-> "tab", id |-> i, index |-> n, url |-> u[1], title |-> u[2]] :
        i \in {1, 2}, n \in {0, 1},
        u \in {<<UrlU, TitleOld>>, <<UrlV, TitleNew>>, <<<<>>, TitleEmpty>>}}

OtherCommand == [kind |-> "other", id |-> 0, index |-> 0, url |-> <<>>, title |-> <<>>]

\* A session with n open tabs, one snapshot each.
ManyTabs(n) ==
    [i \in 1..n |-> [kind |-> "tab", id |-> i, index |-> 0, url |-> UrlU, title |-> TitleOld]]

\* if let snss::Content::Tab(tab) = cmd.content, and not tab.url.is_empty()
IsKeptTab(cmd) == cmd.kind = "tab" /\ cmd.url # <<>>

\* Replacing the retained snapshot on an equal index too.
TabReplacesGe(tab, retained) == tab.index >= retained[1]

\* if tab.index > *idx
TabReplaces(tab, retained) == tab.index > retained[1]

\* The ways into_iter().take(cap) may pick from the map's keys: all of them if
\* there are at most cap, otherwise all but the ones left over at the end of
\* the iteration (at most one here: the inputs hold at most cap + 1 tabs).
TakenKeys(keys, cap) ==
    IF Cardinality(keys) <= cap THEN {keys}
    ELSE {keys \ {k} : k \in {x \in keys : Cardinality(keys) = cap + 1}}

TabsInit ==
    /\ commands \in SeqsUpTo(TabCommands \cup {OtherCommand}, MaxCommands)
                      \cup {ManyTabs(TAB_CAP + 1)}
    /\ tidx = 1
    /\ tab_map = <<>>
    /\ tabs_out = {}
    /\ tpc = "loop"
    /\ DedupeIdle
    /\ SearchIdle
    /\ CanonIdle

\* One iteration: the command is no tab snapshot, or its url is empty.
TabSkip ==
    /\ tpc = "loop"
    /\ tidx <= Len(commands)
    /\ ~IsKeptTab(commands[tidx])
    /\ tidx' = tidx + 1
    /\ UNCHANGED <<commands, tab_map, tabs_out, tpc>>

\* One iteration, or_insert branch: first snapshot of the tab id.
TabInsert ==
    /\ tpc = "loop"
    /\ tidx <= Len(commands)
    /\ IsKeptTab(commands[tidx])
    /\ commands[tidx].id \notin DOMAIN tab_map
    /\ tab_map' = [k \in DOMAIN tab_map \cup {commands[tidx].id} |->
                      IF k \in DOMAIN tab_map THEN tab_map[k]
                      ELSE <<commands[tidx].index, commands[tidx].url, commands[tidx].title>>]
    /\ tidx' = tidx + 1
    /\ UNCHANGED <<commands, tabs_out, tpc>>

\* One iteration, and_modify branch: the tab id is already in the map.
TabUpdate ==
    /\ tpc = "loop"
    /\ tidx <= Len(commands)
    /\ IsKeptTab(commands[tidx])
    /\ commands[tidx].id \in DOMAIN tab_map
    /\ tab_map' = [tab_map EXCEPT ![commands[tidx].id] =
                      IF TabReplaces(commands[tidx], @)
                      THEN <<commands[tidx].index, commands[tidx].url, commands[tidx].title>>
                      ELSE @]
    /\ tidx' = tidx + 1
    /\ UNCHANGED <<commands, tabs_out, tpc>>

\* tab_map.into_iter().take(TAB_CAP).map(Entry::new_tab).collect()
TabsReturn ==
    /\ tpc = "loop"
    /\ tidx = Len(commands) + 1
    /\ \E taken \in TakenKeys(DOMAIN tab_map, TAB_CAP) :
          tabs_out' = {new_tab(tab_map[k][2], tab_map[k][3], k) : k \in taken}
    /\ tpc' = "done"
    /\ UNCHANGED <<commands, tidx, tab_map>>

TabsNext ==
    \/ TabSkip /\ UNCHANGED <<dvars, svars, cvars>>
    \/ TabInsert /\ UNCHANGED <<dvars, svars, cvars>>
    \/ TabUpdate /\ UNCHANGED <<dvars, svars, cvars>>
    \/ TabsReturn /\ UNCHANGED <<dvars, svars, cvars>>

SpecTabs == TabsInit /\ [][TabsNext]_vars

(***************************************************************************)
(* Properties of the ranker.                                               *)
(***************************************************************************)
\* The pattern matches the title_norm or the url_norm of records[i].
Matches(i) ==
    Len(matcher[records[i].title_norm]) = 1 \/ Len(matcher[records[i].url_norm]) = 1

\* The records that score.
ScoringSet == {i \in 1..Len(records) : Matches(i)}

\* The search was called with a non-empty query and has ended.
RankedCallEnded == spc \in {"returned", "panicked"} /\ Len(query) > 0

RankedCallReturned == spc = "returned" /\ Len(query) > 0

ResultSet == {results[i] : i \in 1..Len(results)}

\* C1: for a non-empty query and every limit >= 0, search returns exactly limit
\* records if limit is smaller than the number of scoring records, and exactly
\* as many records as score otherwise.
C1_ResultLength ==
    RankedCallEnded =>
        /\ spc = "returned"
        /\ Len(results) = IF limit < Cardinality(ScoringSet)
                          THEN limit ELSE Cardinality(ScoringSet)

\* C2: for a non-empty query the returned sequence is ordered by non-increasing
\* final score, whether or not the partial selection was taken.
C2_SortedByScore ==
    RankedCallReturned =>
        \A i \in 1..(Len(results) - 1) :
            ScoreAt(records, matcher, results[i]) >= ScoreAt(records, matcher, results[i + 1])

C2_Witness ==
    /\ RankedCallReturned
    /\ Cardinality(ScoringSet) = 3
    /\ limit = 2
    /\ Len(results) = 2
    /\ results[1] > results[2]
    /\ ScoreAt(records, matcher, results[1]) > ScoreAt(records, matcher, results[2])

\* C3: for a non-empty query with more scoring records than limit, the returned
\* records are distinct elements of the input and no scoring record left out
\* scores strictly higher than a returned one.
C3_TopLimitSet ==
    (RankedCallReturned /\ Cardinality(ScoringSet) > limit) =>
        /\ ResultSet \subseteq ScoringSet
        /\ \A i, j \in 1..Len(results) : i # j => results[i] # results[j]
        /\ \A out \in ScoringSet \ ResultSet : \A in \in ResultSet :
              ScoreAt(records, matcher, out) <= ScoreAt(records, matcher, in)

C3_Witness ==
    /\ RankedCallReturned
    /\ Cardinality(ScoringSet) = 3
    /\ limit = 1
    /\ results = <<3>>
    /\ ScoreAt(records, matcher, 3) > ScoreAt(records, matcher, 1)
    /\ ScoreAt(records, matcher, 1) > ScoreAt(records, matcher, 2)

\* C4: with an empty query, search returns exactly the first
\* min(limit, |records|) records of the input, in input order.
C4_BrowseFirstN ==
    (spc = "returned" /\ Len(query) = 0) =>
        /\ Len(results) = IF limit < Len(records) THEN limit ELSE Len(records)
        /\ \A i \in 1..Len(results) : results[i] = i

C4_Witness ==
    /\ spc = "returned"
    /\ Len(query) = 0
    /\ Len(records) = 3
    /\ limit = 2
    /\ results = <<1, 2>>

\* C5: for a non-empty query a record is in the result only if the pattern
\* matches its title_norm or its url_norm; when no record matches (or the
\* slice is empty) search returns an empty sequence for every limit and does
\* not fail.
C5_OnlyMatchesReturned ==
    RankedCallEnded =>
        /\ \A i \in 1..Len(results) : results[i] \in 1..Len(records) /\ Matches(results[i])
        /\ ScoringSet = {} => (spc = "returned" /\ results = <<>>)

C5_Witness ==
    /\ RankedCallReturned
    /\ Len(records) = 3
    /\ limit = 3
    /\ ~Matches(2)
    /\ results = <<1, 3>>

\* The base score of records[i]: the larger of the sub-scores that are present.
BaseOf(i) ==
    LET t == matcher[records[i].title_norm]
        u == matcher[records[i].url_norm]
    IN  IF Len(t) = 1 /\ Len(u) = 1 THEN (IF t[1] >= u[1] THEN t[1] ELSE u[1])
        ELSE IF Len(t) = 1 THEN t[1] ELSE u[1]

\* The visit count the boost is computed from.
VisitsOf(i) == IF Len(records[i].visit_count) = 1 THEN records[i].visit_count[1] ELSE <<0, 0>>

\* C6: the final score of a matching record is max(title, url sub-score) times
\* the frequency boost (exactly 1.0 for an absent visit_count) times the source
\* weight (History 1.0, Bookmark 1.1, Tab 1.3); so of two returned records
\* with the same positive base score and the same visit count, the one of the
\* higher source comes first.
C6_ScoreAndSourceOrder ==
    RankedCallReturned =>
        /\ \A i \in ScoringSet :
              ScoreAt(records, matcher, i) =
                  BaseOf(i)
                  * (IF Len(records[i].visit_count) = 0 THEN 100000
                     ELSE 100000 + Ln1pE4(records[i].visit_count[1]))
                  * (IF records[i].source = 2 THEN 13
                     ELSE IF records[i].source = 1 THEN 11 ELSE 10)
        /\ \A a, b \in 1..Len(results) :
              ( /\ BaseOf(results[a]) = BaseOf(results[b])
                /\ BaseOf(results[a]) > 0
                /\ VisitsOf(results[a]) = VisitsOf(results[b])
                /\ records[results[a]].source > records[results[b]].source )
              => a < b

C6_Witness ==
    /\ RankedCallReturned
    /\ Len(records) = 3
    /\ results = <<3, 2, 1>>
    /\ records[3].source = Tab
    /\ records[2].source = Bookmark
    /\ records[1].source = History
    /\ BaseOf(1) > 0
    /\ BaseOf(1) = BaseOf(2)
    /\ BaseOf(2) = BaseOf(3)
    /\ VisitsOf(1) = VisitsOf(2)
    /\ VisitsOf(2) = VisitsOf(3)

(***************************************************************************)
(* Properties of the deduplicator.                                         *)
(***************************************************************************)
\* Input positions carrying merge key k.
InputsOfKey(k) == {i \in 1..Len(entries) : entries[i].canonical_key = k}

InputKeys == {entries[i].canonical_key : i \in 1..Len(entries)}

\* C7: dedupe_entries returns exactly one record per distinct merge key of the
\* input: no two output records share a key, every input key occurs in the
\* output, and the output length is the number of distinct input keys.
C7_OnePerKey ==
    dpc = "done" =>
        /\ Len(deduped) = Cardinality(InputKeys)
        /\ \A i, j \in 1..Len(deduped) :
              i # j => deduped[i].canonical_key # deduped[j].canonical_key
        /\ \A k \in InputKeys : \E j \in 1..Len(deduped) : deduped[j].canonical_key = k

C7_Witness ==
    /\ dpc = "done"
    /\ Len(entries) = 3
    /\ Len(deduped) = 2
    /\ entries[1].url # entries[2].url
    /\ entries[1].canonical_key = entries[2].canonical_key

\* C8: when an incoming record collides with a retained record, the retained
\* title and title_norm become the incoming ones if the incoming source is
\* strictly greater than the retained source and the incoming title is
\* non-empty, and stay as they were otherwise.
C8_TitleOverride ==
    [][ (dpc = "loop" /\ idx <= Len(entries) /\ idx' = idx + 1
            /\ entries[idx].canonical_key \in DOMAIN map)
        => LET e == entries[idx]
               old == map[e.canonical_key]
               new == map'[e.canonical_key]
           IN  IF e.source > old.source /\ Len(e.title) > 0
               THEN new.title = e.title /\ new.title_norm = e.title_norm
               ELSE new.title = old.title /\ new.title_norm = old.title_norm ]_vars

C8_Witness ==
    /\ lastOp = "merge"
    /\ idx = 3
    /\ entries[1].source = History
    /\ entries[2].source = Tab
    /\ entries[1].canonical_key = entries[2].canonical_key
    /\ Len(entries[2].title) > 0
    /\ entries[1].title # entries[2].title
    /\ map[entries[2].canonical_key].title = entries[2].title
    /\ map[entries[2].canonical_key].title_norm = normalize(entries[2].title)

\* Input positions carrying merge key k and a visit count.
CountedOfKey(k) == {i \in InputsOfKey(k) : Len(entries[i].visit_count) = 1}

\* Sum of limb n of the visit counts at the positions 1..m that lie in S.
RECURSIVE SumLimb(_, _, _)
SumLimb(S, n, m) ==
    IF m = 0 THEN 0
    ELSE SumLimb(S, n, m - 1) + (IF m \in S THEN unwrap(entries[m].visit_count)[n] ELSE 0)

\* min(u32::MAX, exact sum of the visit counts at the positions in S)
CappedTotal(S) ==
    LET lo == SumLimb(S, 2, Len(entries))
        hi == SumLimb(S, 1, Len(entries)) + (lo \div LimbBase)
    IN  IF hi >= LimbBase THEN U32Max ELSE <<hi, lo % LimbBase>>

\* C9: after dedupe_entries the visit_count of each retained record is the
\* sum, capped at u32::MAX, of the visit counts of all input records with its
\* merge key, and it is None exactly if all of them are None.
C9_VisitCountSum ==
    dpc = "done" =>
        \A j \in 1..Len(deduped) :
            LET counted == CountedOfKey(deduped[j].canonical_key)
            IN  IF counted = {}
                THEN deduped[j].visit_count = <<>>
                ELSE deduped[j].visit_count = <<CappedTotal(counted)>>

C9_Witness ==
    /\ dpc = "done"
    /\ \E j \in 1..Len(deduped) :
          /\ deduped[j].visit_count = <<U32Max>>
          /\ Cardinality(InputsOfKey(deduped[j].canonical_key)) = 3
          /\ \A i \in 1..Len(entries) : entries[i].visit_count # <<U32Max>>
          /\ SumLimb(CountedOfKey(deduped[j].canonical_key), 1, Len(entries))
                + (SumLimb(CountedOfKey(deduped[j].canonical_key), 2, Len(entries)) \div LimbBase)
                >= LimbBase

\* C10: after dedupe_entries the last_visit of each retained record is the
\* maximum of the present last_visit values of all input records with its
\* merge key, and it is None only if all of them are None.
C10_LastVisitMax ==
    dpc = "done" =>
        \A j \in 1..Len(deduped) :
            LET dated == {i \in InputsOfKey(deduped[j].canonical_key) :
                             Len(entries[i].last_visit) = 1}
            IN  IF dated = {}
                THEN deduped[j].last_visit = <<>>
                ELSE \E i \in dated :
                        /\ deduped[j].last_visit = entries[i].last_visit
                        /\ \A h \in dated : entries[h].last_visit[1] <= entries[i].last_visit[1]

C10_Witness ==
    /\ dpc = "done"
    /\ Len(entries) = 3
    /\ Len(deduped) = 1
    /\ entries[1].last_visit = <<2000>>
    /\ entries[2].last_visit = <<1000>>
    /\ entries[3].source = Tab
    /\ entries[3].last_visit = <<>>
    /\ deduped[1].last_visit = <<2000>>

\* The first input position carrying merge key k.
FirstOfKey(k) == CHOOSE i \in InputsOfKey(k) : \A h \in InputsOfKey(k) : i <= h

\* C11: for every merge key, the url, folder and tab_id of the record
\* dedupe_entries returns are those of the first input record carrying that
\* key; no later record with the key changes them.
C11_FirstOccurrenceFields ==
    dpc = "done" =>
        \A j \in 1..Len(deduped) :
            LET first == entries[FirstOfKey(deduped[j].canonical_key)]
            IN  /\ deduped[j].url = first.url
                /\ deduped[j].folder = first.folder
                /\ deduped[j].tab_id = first.tab_id

C11_Witness ==
    /\ dpc = "done"
    /\ Len(entries) = 3
    /\ Len(deduped) = 1
    /\ entries[1].source = History
    /\ entries[2].source = Tab
    /\ entries[2].url # entries[1].url
    /\ Len(entries[2].title) > 0
    /\ entries[3].source = Bookmark
    /\ Len(entries[3].folder) = 1
    /\ deduped[1].url = entries[1].url
    /\ deduped[1].folder = <<>>
    /\ deduped[1].tab_id = <<>>

\* C17: after dedupe_entries the title of each retained record is the title
\* of a record of the highest source precedence among the input records with
\* its merge key that have a non-empty title (when there is one), and the
\* retained record's source is not lower than the source its title came from.
C17_TitleOfHighestSource ==
    dpc = "done" =>
        \A j \in 1..Len(deduped) :
            LET titled == {i \in InputsOfKey(deduped[j].canonical_key) :
                              Len(entries[i].title) > 0}
            IN  titled # {} =>
                    \E i \in titled :
                        /\ deduped[j].title = entries[i].title
                        /\ \A h \in titled : entries[h].source <= entries[i].source
                        /\ deduped[j].source >= entries[i].source

\* C18: for every permutation of the input, dedupe_entries produces the same
\* set of merge keys and, for each key, the same visit_count and last_visit.
C18_OrderIndependentCounts ==
    dpc = "done" =>
        \A p \in Reorderings(entries) :
            LET other == DedupeFold(p, Len(p))
            IN  /\ DOMAIN other = {deduped[j].canonical_key : j \in 1..Len(deduped)}
                /\ \A j \in 1..Len(deduped) :
                      /\ other[deduped[j].canonical_key].visit_count = deduped[j].visit_count
                      /\ other[deduped[j].canonical_key].last_visit = deduped[j].last_visit

C18_Witness ==
    /\ dpc = "done"
    /\ Len(entries) = 3
    /\ Len(deduped) = 1
    /\ Len(deduped[1].visit_count) = 1
    /\ entries[1].last_visit # entries[2].last_visit
    /\ \E p \in Reorderings(entries) :
          /\ DedupeFold(p, 3)[deduped[1].canonical_key].url # deduped[1].url
          /\ DedupeFold(p, 3)[deduped[1].canonical_key].title # deduped[1].title

(***************************************************************************)
(* Properties of the canonicalizer.                                        *)
(***************************************************************************)
CanonDone == cpc \in {"once", "twice"}

\* C12: URLs that differ only by a leading scheme, a leading www., a fragment
\* suffix, a query suffix and a trailing slash canonicalize to the same form,
\* the bare host or path they are built around; a bare form canonicalizes to
\* itself.
C12_DecorationsStripped ==
    (CanonDone /\ cin.kind = "decorated") => cout = cin.bare

C12_Witness ==
    /\ cpc = "once"
    /\ cin.url = Https \o Www \o <<"a", "/", "b", "/", "?", "q", "=", "1", "#", "s">>
    /\ cout = <<"a", "/", "b">>

\* What is left of the input after the scheme and www. prefixes are stripped.
AfterPrefixes ==
    trim_start_matches(trim_start_matches(trim_start_matches(cin.url, Https), Http), Www)

\* C13: when nothing precedes the first '#' or '?' of the string left after
\* prefix stripping, canonical_url falls back to the pre-split string: it does
\* not return the empty string.
C13_FallbackNotEmpty ==
    (CanonDone /\ Len(AfterPrefixes) > 0 /\ AfterPrefixes[1] \in {"#", "?"}) =>
        Len(cout) > 0

\* What is left of the input after the fragment and the query are split off.
RemainingPath == SplitFirst(SplitFirst(AfterPrefixes, "#"), "?")

\* C14: canonical_url strips a single trailing '/': a remaining path ending in
\* k >= 2 slashes keeps k - 1 of them.
C14_SingleSlashStripped ==
    (CanonDone /\ Len(RemainingPath) >= 2
        /\ RemainingPath[Len(RemainingPath)] = "/"
        /\ RemainingPath[Len(RemainingPath) - 1] = "/")
    => cout = SubSeq(RemainingPath, 1, Len(RemainingPath) - 1)

\* C15: canonical_url is idempotent: canonical_url(canonical_url(u)) equals
\* canonical_url(u) for every u.
C15_Idempotent ==
    cpc = "twice" => cagain = cout

(***************************************************************************)
(* Properties of the tab producer.                                         *)
(***************************************************************************)
\* Positions in cmds of the tab snapshots.
Snapshots(cmds) == {i \in 1..Len(cmds) : cmds[i].kind = "tab"}

\* Positions in cmds of the tab snapshots that have a url.
UrlSnapshots(cmds) == {i \in Snapshots(cmds) : Len(cmds[i].url) > 0}

\* The records of the snapshots that have the highest index of their tab id.
HighestIndexTabs(cmds) ==
    LET snaps == Snapshots(cmds)
    IN  {new_tab(cmds[i].url, cmds[i].title, cmds[i].id) :
            i \in {p \in snaps :
                      \A h \in snaps :
                          cmds[h].id = cmds[p].id => cmds[h].index <= cmds[p].index}}

\* The records of the snapshots that are, in command order, the first one with
\* the highest index among the snapshots of their tab id that have a url.
FirstHighestUrlTabs(cmds) ==
    LET snaps == UrlSnapshots(cmds)
    IN  {new_tab(cmds[i].url, cmds[i].title, cmds[i].id) :
            i \in {p \in snaps :
                      \A h \in snaps :
                          cmds[h].id = cmds[p].id =>
                              \/ cmds[h].index < cmds[p].index
                              \/ cmds[h].index = cmds[p].index /\ p <= h}}

\* The session with more tabs than the cap, and its records, computed once.
LargeSession == ManyTabs(TAB_CAP + 1)
LargeSessionHighestIndexTabs == HighestIndexTabs(LargeSession)
LargeSessionFirstHighestUrlTabs == FirstHighestUrlTabs(LargeSession)

OnePerTabId == Cardinality({e.tab_id : e \in tabs_out}) = Cardinality(tabs_out)

\* C16 as claimed: load_tabs returns at most one record per tab id, carrying
\* the url and title of the highest-index snapshot seen for that tab id, and
\* at most 500 records.
C16_HighestIndexSnapshot ==
    tpc = "done" =>
        /\ OnePerTabId
        /\ Cardinality(tabs_out) <= 500
        /\ tabs_out \subseteq (IF commands = LargeSession
                               THEN LargeSessionHighestIndexTabs
                               ELSE HighestIndexTabs(commands))

\* C16, amended: load_tabs returns at most one record per tab id and at most
\* 500 records; a record carries the url and title of the first snapshot, in
\* command order, that has the highest index among the snapshots of its tab
\* id with a non-empty url.
C16_HighestIndexUrlSnapshot ==
    tpc = "done" =>
        /\ OnePerTabId
        /\ Cardinality(tabs_out) <= 500
        /\ tabs_out \subseteq (IF commands = LargeSession
                               THEN LargeSessionFirstHighestUrlTabs
                               ELSE FirstHighestUrlTabs(commands))

C16_Witness ==
    /\ tpc = "done"
    /\ Len(commands) = 3
    /\ commands[1] = [kind |-> "tab", id |-> 1, index |-> 0, url |-> UrlU, title |-> TitleOld]
    /\ commands[2] = [kind |-> "tab", id |-> 1, index |-> 1, url |-> UrlV, title |-> TitleNew]
    /\ commands[3] = [kind |-> "tab", id |-> 1, index |-> 1, url |-> <<>>, title |-> TitleEmpty]
    /\ tabs_out = {new_tab(UrlV, TitleNew, 1)}

====
